---------------------------- MODULE Spec2Model ----------------------------
(***************************************************************************)
(* Model of app-userprivilege: a small monolithic kernel application that  *)
(* builds a user address space, loads a flat binary at 0x1000, maps a user *)
(* stack, spawns a task that runs the user-mode executor loop and waits    *)
(* for the task's exit status.                                             *)
(*                                                                         *)
(* Machine words are 64 bits wide.  A word is a tuple of four 16-bit limbs *)
(* <<l0, l1, l2, l3>>, least significant first, so that 64-bit values and  *)
(* the `as i32` truncation are computed exactly.                           *)
(***************************************************************************)
EXTENDS Integers, Sequences, FiniteSets, TLC

VARIABLES
    arch,        \* target architecture the kernel was compiled for (cfg)
    file,        \* contents of /sbin/origin on the disk image, or NoFile
    mpc,         \* position of main()
    mainErr,     \* the error value main() panicked with, or "none"
    lpc,         \* position inside load_user_app / load_file
    buf,         \* load_user_app's staging buffer
    loadRes,     \* the Result load_user_app returned, or "none"
    failedStep,  \* history: first loader step that failed, or "none"
    cause,       \* history: the underlying error of that step, or "none"
    areas,       \* regions mapped in uspace (process-specific mappings)
    kmapped,     \* uspace holds the copied kernel mappings
    aspace,      \* who owns uspace: "none", "main", "task"
    codePage,    \* bytes of the page allocated for the user code, or NoPage
    stackPages,  \* the stack's SharedPages were allocated
    tpc,         \* position of the user task
    ptRoot,      \* page-table root set on the task, or "none"
    uctx,        \* the task's UserContext (register file), or NoCtx
    reason,      \* ReturnReason of the last uctx.run(), or NoReason
    exitStatus,  \* exit code recorded by axtask::exit, or NoStatus
    joinResult,  \* what join() returned to main, or NoStatus
    nUnknown,    \* history: unimplemented syscalls serviced (saturating)
    xcmd,        \* xtask: the subcommand given on the command line
    xarch,       \* xtask: the --arch string given on the command line
    xpc,         \* xtask: the call main() makes next, or "exited"
    xran,        \* xtask history: the steps run so far and how each ended
    xstatus      \* xtask: the exit status of the tool's process, or <<>>

vars == <<arch, file, mpc, mainErr, lpc, buf, loadRes, failedStep, cause,
          areas, kmapped, aspace, codePage, stackPages, tpc, ptRoot, uctx,
          reason, exitStatus, joinResult, nUnknown,
          xcmd, xarch, xpc, xran, xstatus>>

loaderVars == <<lpc, buf, loadRes, failedStep, cause>>
spaceVars  == <<areas, kmapped, aspace, codePage, stackPages>>
taskVars   == <<tpc, ptRoot, uctx, reason, exitStatus, nUnknown>>
mainVars   == <<mpc, mainErr, joinResult>>
xtaskVars  == <<xcmd, xarch, xpc, xran, xstatus>>

---------------------------------------------------------------------------
\* Bounds of the model.

\* Number of bytes of a page that the model tracks (stands for the 4096
\* bytes of the staging buffer and of the code page).
PageLen == 3

\* The history counter nUnknown saturates at this value.
MaxCount == 2

---------------------------------------------------------------------------
\* 64-bit words as four 16-bit limbs.

Limb == 2 ^ 16

\* The word of a natural number below 2^31.
ToWord(n) == <<n % Limb, n \div Limb, 0, 0>>

\* usize::MAX
USIZE_MAX == <<Limb - 1, Limb - 1, Limb - 1, Limb - 1>>

\* a < b on unsigned words
WordLT(a, b) ==
    \/ a[4] < b[4]
    \/ a[4] = b[4] /\ a[3] < b[3]
    \/ a[4] = b[4] /\ a[3] = b[3] /\ a[2] < b[2]
    \/ a[4] = b[4] /\ a[3] = b[3] /\ a[2] = b[2] /\ a[1] < b[1]

WordLE(a, b) == a = b \/ WordLT(a, b)

\* a + b modulo 2^64
WordAdd(a, b) ==
    LET s1 == a[1] + b[1]
        s2 == a[2] + b[2] + (s1 \div Limb)
        s3 == a[3] + b[3] + (s2 \div Limb)
        s4 == a[4] + b[4] + (s3 \div Limb)
    IN  <<s1 % Limb, s2 % Limb, s3 % Limb, s4 % Limb>>

\* a - b modulo 2^64
WordSub(a, b) ==
    LET d1 == a[1] - b[1]
        c1 == IF d1 < 0 THEN 1 ELSE 0
        d2 == a[2] - b[2] - c1
        c2 == IF d2 < 0 THEN 1 ELSE 0
        d3 == a[3] - b[3] - c2
        c3 == IF d3 < 0 THEN 1 ELSE 0
        d4 == a[4] - b[4] - c3
    IN  <<d1 % Limb, d2 % Limb, d3 % Limb, d4 % Limb>>

\* A conversion that masks bit 31 away.
AsI32NoSign(w) == (w[2] % (Limb \div 2)) * Limb + w[1]

\* `w as i32`: the low 32 bits of w as a two's-complement integer.
AsI32(w) ==
    IF w[2] >= Limb \div 2
        THEN (w[2] - Limb) * Limb + w[1]
        ELSE w[2] * Limb + w[1]

---------------------------------------------------------------------------
\* Program constants.

SYS_EXIT == 93
USER_STACK_SIZE == 65536
APP_ENTRY == 4096
PAGE_SIZE_4K == 4096

\* va!(0x0) and 0x40_0000_0000, the range of the user address space.
USPACE_BASE == <<0, 0, 0, 0>>
USPACE_SIZE == <<0, 0, 64, 0>>

Archs == {"riscv64", "aarch64", "x86_64", "loongarch64"}

Flags == {"READ", "WRITE", "EXECUTE", "USER"}

---------------------------------------------------------------------------
\* The user register file.  Only the registers the kernel reads or writes
\* are kept: program counter, stack pointer, first argument, return value
\* and syscall number, under the names each architecture gives them.
\* (riscv32 shares the riscv64 layout.)

\* Program counter of the saved context.
IpReg ==
    CASE arch = "riscv64"     -> "sepc"
      [] arch = "aarch64"     -> "elr"
      [] arch = "x86_64"      -> "rip"
      [] arch = "loongarch64" -> "era"

\* Stack pointer of the saved context.
SpReg == IF arch = "x86_64" THEN "rsp" ELSE "sp"

\* Register read by uctx.arg0().
Arg0Reg ==
    CASE arch = "riscv64"     -> "a0"
      [] arch = "aarch64"     -> "x0"
      [] arch = "x86_64"      -> "rdi"
      [] arch = "loongarch64" -> "a0"

\* Register written by uctx.set_retval().
RetvalReg ==
    CASE arch = "riscv64"     -> "a0"
      [] arch = "aarch64"     -> "x0"
      [] arch = "x86_64"      -> "rax"
      [] arch = "loongarch64" -> "a0"

\* A mis-selected syscall-number register: the first argument register.
SysnoRegWrong == Arg0Reg

\* Register read by syscall_num().
SysnoReg ==
    CASE arch = "riscv64"     -> "a7"
      [] arch = "aarch64"     -> "x8"
      [] arch = "x86_64"      -> "rax"
      [] arch = "loongarch64" -> "a7"

\* The registers of the context.
Regs ==
    CASE arch = "riscv64"     -> {"sepc", "sp", "a0", "a7"}
      [] arch = "aarch64"     -> {"elr", "sp", "x0", "x8"}
      [] arch = "x86_64"      -> {"rip", "rsp", "rdi", "rax"}
      [] arch = "loongarch64" -> {"era", "sp", "a0", "a7"}

\* UserContext::new with entry and stack pointer exchanged.
NewUserContextSwapped(entry, sp, a0) ==
    [r \in Regs |->
        IF r = IpReg THEN sp
        ELSE IF r = SpReg THEN entry
        ELSE IF r = Arg0Reg THEN a0
        ELSE ToWord(0)]

\* UserContext::new(entry, ustack_top, arg0): every other register is zero.
NewUserContext(entry, sp, a0) ==
    [r \in Regs |->
        IF r = IpReg THEN entry
        ELSE IF r = SpReg THEN sp
        ELSE IF r = Arg0Reg THEN a0
        ELSE ToWord(0)]

arg0(ctx) == ctx[Arg0Reg]

\* set_retval that leaves the context as it was.
set_retval_dropped(ctx, v) == ctx

set_retval(ctx, v) == [ctx EXCEPT ![RetvalReg] = v]

syscall_num(ctx) == ctx[SysnoReg]

\* Option<i32>
None == <<>>
Some(v) == <<v>>

\* handle_syscall whose exit arm ignores the first argument.
handle_syscall_code0(ctx) ==
    IF ctx[SysnoReg] = ToWord(SYS_EXIT)
        THEN [ret |-> Some(0), ctx |-> ctx]
        ELSE [ret |-> None, ctx |-> [ctx EXCEPT ![RetvalReg] = USIZE_MAX]]

\* handle_syscall that writes the sentinel in the exit arm as well.
handle_syscall_retval_always(ctx) ==
    IF ctx[SysnoReg] = ToWord(SYS_EXIT)
        THEN [ret |-> Some(AsI32(ctx[Arg0Reg])),
              ctx |-> [ctx EXCEPT ![RetvalReg] = USIZE_MAX]]
        ELSE [ret |-> None, ctx |-> [ctx EXCEPT ![RetvalReg] = USIZE_MAX]]

\* handle_syscall that terminates the process on an unimplemented call.
handle_syscall_exits(ctx) ==
    IF syscall_num(ctx) = ToWord(SYS_EXIT)
        THEN [ret |-> Some(AsI32(arg0(ctx))), ctx |-> ctx]
        ELSE [ret |-> Some(-1), ctx |-> set_retval(ctx, USIZE_MAX)]

\* handle_syscall(&mut uctx): the returned Option<i32> and the context as
\* the call leaves it.
handle_syscall(ctx) ==
    IF syscall_num(ctx) = ToWord(SYS_EXIT)
        THEN [ret |-> Some(AsI32(arg0(ctx))), ctx |-> ctx]
        ELSE [ret |-> None, ctx |-> set_retval(ctx, USIZE_MAX)]

---------------------------------------------------------------------------
\* Values user code is seen to leave in its registers.

W0 == ToWord(0)
WNeg7 == <<Limb - 7, Limb - 1, Limb - 1, Limb - 1>>     \* -7 as a 64-bit word
WNeg7Low == <<Limb - 7, Limb - 1, 0, 0>>                \* -7 as a 32-bit word
WIntMin == <<0, Limb \div 2, 0, 0>>                     \* 0x8000_0000
WIntMax == <<Limb - 1, (Limb \div 2) - 1, 0, 0>>        \* 0x7fff_ffff
WHigh5 == <<5, 0, 1, 0>>                                \* 2^32 + 5
WHigh93 == <<SYS_EXIT, 0, 1, 0>>                        \* 2^32 + 93

SysnoVals == {ToWord(SYS_EXIT), ToWord(SYS_EXIT + 1), WHigh93, USIZE_MAX}
ArgVals == {W0, WNeg7, WNeg7Low, WIntMin, WIntMax, WHigh5}
IpVals == {ToWord(APP_ENTRY), ToWord(APP_ENTRY + 4)}
SpVals == {WordAdd(USPACE_BASE, USPACE_SIZE),
           WordSub(WordAdd(USPACE_BASE, USPACE_SIZE), ToWord(16))}

\* What user code may write into register r.
RegVals(r) ==
    IF r = SysnoReg THEN SysnoVals
    ELSE IF r = Arg0Reg THEN ArgVals
    ELSE IF r = IpReg THEN IpVals
    ELSE IF r = SpReg THEN SpVals
    ELSE ArgVals

\* ReturnReason
FaultAddrs == {ToWord(0), ToWord(APP_ENTRY)}
SyscallReason == [kind |-> "Syscall", vaddr |-> W0, flags |-> {}]
PageFaultReasons ==
    [kind : {"PageFault"}, vaddr : FaultAddrs, flags : SUBSET Flags]
OtherReasons ==
    [kind : {"Interrupt", "Exception", "Unknown"}, vaddr : {W0}, flags : {{}}]
Reasons == {SyscallReason} \cup PageFaultReasons \cup OtherReasons
NoReason == [kind |-> "none", vaddr |-> W0, flags |-> {}]

NoCtx == <<>>
NoStatus == <<>>

---------------------------------------------------------------------------
\* The address space: AddrSpace::new_empty(va!(0x0), 0x40_0000_0000).

\* uspace.end()
UspaceEnd == WordAdd(USPACE_BASE, USPACE_SIZE)

AreaEnd(a) == WordAdd(a.start, a.size)

\* [start, start + size) lies within the address space's range.
InRange(start, size) ==
    /\ WordLE(USPACE_BASE, start)
    /\ WordLE(start, WordAdd(start, size))
    /\ WordLE(WordAdd(start, size), UspaceEnd)

Overlaps(a, start, size) ==
    /\ WordLT(a.start, WordAdd(start, size))
    /\ WordLT(start, AreaEnd(a))

\* The results AddrSpace::map(start, size, ..) can produce in address
\* space `as`: a range outside the space or over an existing area is
\* rejected; otherwise the map succeeds unless the page table cannot be
\* populated.
MapOutcomes(as, start, size) ==
    IF ~InRange(start, size) THEN {"InvalidInput"}
    ELSE IF \E a \in as : Overlaps(a, start, size) THEN {"AlreadyExists"}
    ELSE {"Ok", "NoMemory", "BadState"}

\* The area of `as` that holds address v, if any.
AreasAt(as, v) == {a \in as : WordLE(a.start, v) /\ WordLT(v, AreaEnd(a))}

CodeFlags == {"READ", "WRITE", "EXECUTE", "USER"}
\* Stack flags that also grant EXECUTE.
StackFlagsExec == {"READ", "WRITE", "EXECUTE", "USER"}

StackFlags == {"READ", "WRITE", "USER"}

\* ustack_top and ustack_vaddr of main().
UstackTop == UspaceEnd
UstackVaddr == WordSub(UstackTop, ToWord(USER_STACK_SIZE))

---------------------------------------------------------------------------
\* Files and pages.

Bytes == {0, 1, 2}
Min(a, b) == IF a < b THEN a ELSE b

FileData == UNION {[1..n -> Bytes] : n \in 0..(PageLen + 1)}
NoFile == [present |-> FALSE, bytes |-> <<>>]
Files == [present : {TRUE}, bytes : FileData] \cup {NoFile}

\* The flat binary the build puts at /sbin/origin.
Payload == [present |-> TRUE, bytes |-> <<1, 2>>]

\* [0u8; PAGE_SIZE_4K]
ZeroPage == [i \in 1..PageLen |-> 0]
NoPage == <<>>

\* Errors a read of the file can return.
ReadErrors == {"Io", "BadState", "NoMemory"}

\* The byte counts one read() call into a one-page buffer can return.
ReadCounts(d) == IF Len(d) = 0 THEN {0} ELSE 1..Min(Len(d), PageLen)

\* The buffer after read() delivered the first n bytes of d into b.
ReadInto(d, b, n) == [i \in 1..PageLen |-> IF i <= n THEN d[i] ELSE b[i]]

\* A copy with source and destination exchanged: the page is not written.
CopyPageSwapped(page, b) == page

\* copy_nonoverlapping(buf, page, PAGE_SIZE_4K): the page afterwards.
CopyPage(page, b) == [i \in 1..PageLen |-> b[i]]

---------------------------------------------------------------------------
\* Initial states.

\* The build tool is a program of the host and takes no step while the
\* kernel runs.
XtaskOff ==
    /\ xcmd = "Run"
    /\ xarch = arch
    /\ xpc = "off"
    /\ xran = <<>>
    /\ xstatus = <<>>

\* The state main() starts in, with the shipped payload on the disk image.
Init ==
    /\ arch \in Archs
    /\ file = Payload
    /\ mpc = "new_empty"
    /\ mainErr = "none"
    /\ lpc = "idle"
    /\ buf = NoPage
    /\ loadRes = "none"
    /\ failedStep = "none"
    /\ cause = "none"
    /\ areas = {}
    /\ kmapped = FALSE
    /\ aspace = "none"
    /\ codePage = NoPage
    /\ stackPages = FALSE
    /\ tpc = "unspawned"
    /\ ptRoot = "none"
    /\ uctx = NoCtx
    /\ reason = NoReason
    /\ exitStatus = NoStatus
    /\ joinResult = NoStatus
    /\ nUnknown = 0
    /\ XtaskOff

\* The state in which main() calls load_user_app, for every file the disk
\* image may hold at /sbin/origin (or none).
LoaderInit ==
    /\ arch \in Archs
    /\ file \in Files
    /\ mpc = "load_user_app"
    /\ mainErr = "none"
    /\ lpc = "open"
    /\ buf = NoPage
    /\ loadRes = "none"
    /\ failedStep = "none"
    /\ cause = "none"
    /\ areas = {}
    /\ kmapped = TRUE
    /\ aspace = "main"
    /\ codePage = NoPage
    /\ stackPages = FALSE
    /\ tpc = "unspawned"
    /\ ptRoot = "none"
    /\ uctx = NoCtx
    /\ reason = NoReason
    /\ exitStatus = NoStatus
    /\ joinResult = NoStatus
    /\ nUnknown = 0
    /\ XtaskOff

---------------------------------------------------------------------------
\* main(): address-space setup.

\* A panic of main(): the kernel stops with the error value.
Panic(err) ==
    /\ mpc' = "panicked"
    /\ mainErr' = err

\* AddrSpace::new_empty(va!(0x0), 0x40_0000_0000).unwrap()
NewEmpty ==
    /\ mpc = "new_empty"
    /\ \E ok \in BOOLEAN :
          IF ok
              THEN /\ aspace' = "main"
                   /\ mpc' = "copy_mappings"
                   /\ UNCHANGED mainErr
              ELSE /\ Panic("NoMemory")
                   /\ UNCHANGED aspace
    /\ UNCHANGED <<xtaskVars, arch, file, joinResult, loaderVars, taskVars,
                   areas, kmapped, codePage, stackPages>>

\* uspace.copy_mappings_from(&kernel_aspace().lock()).unwrap()
CopyMappings ==
    /\ mpc = "copy_mappings"
    /\ \E r \in {"Ok", "NoMemory", "InvalidInput"} :
          IF r = "Ok"
              THEN /\ kmapped' = TRUE
                   /\ mpc' = "load_user_app"
                   /\ lpc' = "open"
                   /\ UNCHANGED mainErr
              ELSE /\ Panic(r)
                   /\ UNCHANGED <<kmapped, lpc>>
    /\ UNCHANGED <<xtaskVars, arch, file, joinResult, taskVars, buf, loadRes,
                   failedStep, cause, areas, aspace, codePage, stackPages>>

---------------------------------------------------------------------------
\* load_user_app("/sbin/origin", &mut uspace) and load_file.

\* A failure that hands the step's own error to the caller unmapped.
LoadFailRaw(step, why, err) ==
    /\ lpc' = "ret"
    /\ loadRes' = why
    /\ failedStep' = step
    /\ cause' = why

\* load_user_app returns Err(err); step `step` failed with error `why`.
LoadFail(step, why, err) ==
    /\ lpc' = "ret"
    /\ loadRes' = err
    /\ failedStep' = step
    /\ cause' = why

\* A loader that allocates the code page before it opens the file.
LoadOpenAllocFirst ==
    /\ mpc = "load_user_app"
    /\ lpc = "open"
    /\ buf' = ZeroPage
    /\ codePage' = ZeroPage
    /\ \E r \in (IF file.present THEN {"Ok", "Io", "PermissionDenied"}
                                 ELSE {"NotFound"}) :
          IF r = "Ok"
              THEN /\ lpc' = "read"
                   /\ UNCHANGED <<loadRes, failedStep, cause>>
              ELSE LoadFail("open", r, "NotFound")
    /\ UNCHANGED <<xtaskVars, arch, file, mainVars, taskVars,
                   areas, kmapped, aspace, stackPages>>

\* let mut buf = [0u8; PAGE_SIZE_4K]; File::open(ctx, fname)
LoadOpen ==
    /\ mpc = "load_user_app"
    /\ lpc = "open"
    /\ buf' = ZeroPage
    /\ \E r \in (IF file.present THEN {"Ok", "Io", "PermissionDenied"}
                                 ELSE {"NotFound"}) :
          IF r = "Ok"
              THEN /\ lpc' = "read"
                   /\ UNCHANGED <<loadRes, failedStep, cause>>
              ELSE LoadFail("open", r, "NotFound")
    /\ UNCHANGED <<xtaskVars, arch, file, mainVars, spaceVars, taskVars>>

\* let n = (&file).read(buf)?;  n is returned by load_file and dropped.
LoadRead ==
    /\ mpc = "load_user_app"
    /\ lpc = "read"
    /\ \/ \E e \in ReadErrors :
             /\ LoadFail("read", e, e)
             /\ UNCHANGED buf
       \/ \E n \in ReadCounts(file.bytes) :
             /\ buf' = ReadInto(file.bytes, buf, n)
             /\ lpc' = "alloc"
             /\ UNCHANGED <<loadRes, failedStep, cause>>
    /\ UNCHANGED <<xtaskVars, arch, file, mainVars, spaceVars, taskVars>>

\* SharedPages::new(PAGE_SIZE_4K, Size4K).map_err(|_| NoMemory)?
LoadAlloc ==
    /\ mpc = "load_user_app"
    /\ lpc = "alloc"
    /\ \E ok \in BOOLEAN :
          IF ok
              THEN /\ codePage' = ZeroPage
                   /\ lpc' = "map"
                   /\ UNCHANGED <<loadRes, failedStep, cause>>
              ELSE /\ LoadFail("alloc", "NoMemory", "NoMemory")
                   /\ UNCHANGED codePage
    /\ UNCHANGED <<xtaskVars, arch, file, mainVars, taskVars, buf,
                   areas, kmapped, aspace, stackPages>>

\* uspace.map(APP_ENTRY, PAGE_SIZE_4K, R|W|X|U, true, shared(code_pages))
\*       .map_err(|_| NoMemory)?
LoadMap ==
    /\ mpc = "load_user_app"
    /\ lpc = "map"
    /\ \E r \in MapOutcomes(areas, ToWord(APP_ENTRY), ToWord(PAGE_SIZE_4K)) :
          IF r = "Ok"
              THEN /\ areas' = areas \cup
                          {[start |-> ToWord(APP_ENTRY),
                            size |-> ToWord(PAGE_SIZE_4K),
                            flags |-> CodeFlags,
                            backing |-> "code_pages"]}
                   /\ lpc' = "query"
                   /\ UNCHANGED <<loadRes, failedStep, cause, codePage>>
              ELSE /\ LoadFail("map", r, "NoMemory")
                   /\ codePage' = NoPage
                   /\ UNCHANGED areas
    /\ UNCHANGED <<xtaskVars, arch, file, mainVars, taskVars, buf,
                   kmapped, aspace, stackPages>>

\* uspace.page_table().query(APP_ENTRY).unwrap_or_else(|_| panic!(..))
LoadQuery ==
    /\ mpc = "load_user_app"
    /\ lpc = "query"
    /\ IF AreasAt(areas, ToWord(APP_ENTRY)) # {}
          THEN /\ lpc' = "copy"
               /\ UNCHANGED <<mpc, mainErr>>
          ELSE /\ Panic("Mapping failed for segment")
               /\ UNCHANGED lpc
    /\ UNCHANGED <<xtaskVars, arch, file, joinResult, spaceVars, taskVars,
                   buf, loadRes, failedStep, cause>>

\* copy_nonoverlapping(buf, phys_to_virt(paddr), PAGE_SIZE_4K); Ok(())
LoadCopy ==
    /\ mpc = "load_user_app"
    /\ lpc = "copy"
    /\ codePage' = CopyPage(codePage, buf)
    /\ lpc' = "ret"
    /\ loadRes' = "Ok"
    /\ UNCHANGED <<xtaskVars, arch, file, mainVars, taskVars, buf, failedStep, cause,
                   areas, kmapped, aspace, stackPages>>

\* A main() that goes on to the stack whatever load_user_app returned.
AfterLoadContinues ==
    /\ mpc = "load_user_app"
    /\ lpc = "ret"
    /\ lpc' = "idle"
    /\ buf' = NoPage
    /\ mpc' = "stack_alloc"
    /\ UNCHANGED <<xtaskVars, arch, file, mainErr, joinResult, spaceVars, taskVars,
                   loadRes, failedStep, cause>>

\* if let Err(e) = loader::load_user_app(..) { panic!("Cannot load app!") }
AfterLoad ==
    /\ mpc = "load_user_app"
    /\ lpc = "ret"
    /\ lpc' = "idle"
    /\ buf' = NoPage
    /\ IF loadRes = "Ok"
          THEN /\ mpc' = "stack_alloc"
               /\ UNCHANGED mainErr
          ELSE Panic(loadRes)
    /\ UNCHANGED <<xtaskVars, arch, file, joinResult, spaceVars, taskVars,
                   loadRes, failedStep, cause>>

LoaderNext ==
    \/ LoadOpen
    \/ LoadRead
    \/ LoadAlloc
    \/ LoadMap
    \/ LoadQuery
    \/ LoadCopy

---------------------------------------------------------------------------
\* main(): user stack, spawn and join.

\* Arc::new(SharedPages::new(USER_STACK_SIZE, Size4K).unwrap())
StackAlloc ==
    /\ mpc = "stack_alloc"
    /\ \E ok \in BOOLEAN :
          IF ok
              THEN /\ stackPages' = TRUE
                   /\ mpc' = "stack_map"
                   /\ UNCHANGED mainErr
              ELSE /\ Panic("NoMemory")
                   /\ UNCHANGED stackPages
    /\ UNCHANGED <<xtaskVars, arch, file, joinResult, loaderVars, taskVars,
                   areas, kmapped, aspace, codePage>>

\* uspace.map(ustack_vaddr, USER_STACK_SIZE, R|W|U, true, shared(..)).unwrap()
StackMap ==
    /\ mpc = "stack_map"
    /\ \E r \in MapOutcomes(areas, UstackVaddr, ToWord(USER_STACK_SIZE)) :
          IF r = "Ok"
              THEN /\ areas' = areas \cup
                          {[start |-> UstackVaddr,
                            size |-> ToWord(USER_STACK_SIZE),
                            flags |-> StackFlags,
                            backing |-> "stack_pages"]}
                   /\ mpc' = "spawn"
                   /\ UNCHANGED mainErr
              ELSE /\ Panic(r)
                   /\ UNCHANGED areas
    /\ UNCHANGED <<xtaskVars, arch, file, joinResult, loaderVars, taskVars,
                   kmapped, aspace, codePage, stackPages>>

\* spawn_user_task that does not set the page-table root on the task.
SpawnUserTaskNoRoot ==
    /\ mpc = "spawn"
    /\ aspace' = "task"
    /\ tpc' = "start"
    /\ mpc' = "join"
    /\ UNCHANGED <<xtaskVars, arch, file, mainErr, joinResult, loaderVars, uctx, reason,
                   exitStatus, nUnknown, areas, kmapped, codePage, stackPages,
                   ptRoot>>

\* task::spawn_user_task(uspace, ustack_top): the address space moves into
\* the task's closure, its page-table root is set on the task, and
\* axtask::spawn_task makes the task schedulable.
SpawnUserTask ==
    /\ mpc = "spawn"
    /\ ptRoot' = "uspace"
    /\ aspace' = "task"
    /\ tpc' = "start"
    /\ mpc' = "join"
    /\ UNCHANGED <<xtaskVars, arch, file, mainErr, joinResult, loaderVars, uctx, reason,
                   exitStatus, nUnknown, areas, kmapped, codePage, stackPages>>

\* user_task.join() is called: main blocks until the task has exited.
JoinCall ==
    /\ mpc = "join"
    /\ mpc' = "joining"
    /\ UNCHANGED <<xtaskVars, arch, file, mainErr, joinResult, loaderVars, spaceVars,
                   taskVars>>

\* A join() that does not wait for the task to exit.
JoinReturnEarly ==
    /\ mpc = "joining"
    /\ mpc' = "done"
    /\ joinResult' = IF tpc = "exited" THEN exitStatus ELSE Some(0)
    /\ UNCHANGED <<xtaskVars, arch, file, mainErr, loaderVars, spaceVars, taskVars>>

\* join() returns the exit code of the exited task.
JoinReturn ==
    /\ mpc = "joining"
    /\ tpc = "exited"
    /\ mpc' = "done"
    /\ joinResult' = exitStatus
    /\ UNCHANGED <<xtaskVars, arch, file, mainErr, loaderVars, spaceVars, taskVars>>

---------------------------------------------------------------------------
\* The user task: the closure given to TaskInner::new.

\* An exit that records the code and returns into the loop.
ExitReturns(code) ==
    /\ exitStatus' = Some(code)
    /\ tpc' = "loop"

\* axtask::exit(code): the task records its exit code and never runs again.
\* exit() does not return into the closure, so the closure's locals
\* (_uspace, uctx) are not dropped: aspace and uctx stay as they are.
Exit(code) ==
    /\ exitStatus' = Some(code)
    /\ tpc' = "exited"

\* A task body that creates the context with a non-zero first argument.
TaskStartArg5 ==
    /\ tpc = "start"
    /\ uctx' = NewUserContext(ToWord(APP_ENTRY), UstackTop, WHigh5)
    /\ tpc' = "loop"
    /\ UNCHANGED <<xtaskVars, arch, file, mainVars, loaderVars, spaceVars,
                   ptRoot, reason, exitStatus, nUnknown>>

\* let mut uctx = UserContext::new(entry, sp, 0);
TaskStart ==
    /\ tpc = "start"
    /\ uctx' = NewUserContext(ToWord(APP_ENTRY), UstackTop, W0)
    /\ tpc' = "loop"
    /\ UNCHANGED <<xtaskVars, arch, file, mainVars, loaderVars, spaceVars,
                   ptRoot, reason, exitStatus, nUnknown>>

\* uctx.run(): the processor enters user mode with the registers of uctx.
RunUser ==
    /\ tpc = "loop"
    /\ tpc' = "in_user"
    /\ UNCHANGED <<xtaskVars, arch, file, mainVars, loaderVars, spaceVars,
                   ptRoot, uctx, reason, exitStatus, nUnknown>>

\* User code changes one of its registers.
UserWrite ==
    /\ tpc = "in_user"
    /\ \E r \in Regs : \E v \in RegVals(r) :
          /\ uctx[r] # v
          /\ uctx' = [uctx EXCEPT ![r] = v]
    /\ UNCHANGED <<xtaskVars, arch, file, mainVars, loaderVars, spaceVars,
                   tpc, ptRoot, reason, exitStatus, nUnknown>>

\* uctx.run() returns: the user registers are saved in uctx and the cause
\* of the return is classified.
Trap ==
    /\ tpc = "in_user"
    /\ \E rsn \in Reasons : reason' = rsn
    /\ tpc' = "trap"
    /\ UNCHANGED <<xtaskVars, arch, file, mainVars, loaderVars, spaceVars,
                   ptRoot, uctx, exitStatus, nUnknown>>

\* ReturnReason::Syscall => if let Some(exit_code) = handle_syscall(&mut uctx)
\*                              { axtask::exit(exit_code as _) }
OnSyscall ==
    /\ tpc = "trap"
    /\ reason.kind = "Syscall"
    /\ LET h == handle_syscall(uctx) IN
          /\ uctx' = h.ctx
          /\ IF h.ret # None
                THEN /\ Exit(h.ret[1])
                     /\ UNCHANGED nUnknown
                ELSE /\ tpc' = "loop"
                     /\ nUnknown' = Min(nUnknown + 1, MaxCount)
                     /\ UNCHANGED exitStatus
    /\ UNCHANGED <<xtaskVars, arch, file, mainVars, loaderVars, spaceVars,
                   ptRoot, reason>>

\* A page-fault arm that resumes the user program instead of exiting.
OnPageFaultResume ==
    /\ tpc = "trap"
    /\ reason.kind = "PageFault"
    /\ tpc' = "loop"
    /\ UNCHANGED <<xtaskVars, arch, file, mainVars, loaderVars, spaceVars,
                   ptRoot, uctx, reason, exitStatus, nUnknown>>

\* A catch-all arm that resumes the user program instead of exiting.
OnOtherTrapResume ==
    /\ tpc = "trap"
    /\ reason.kind \notin {"Syscall", "PageFault"}
    /\ tpc' = "loop"
    /\ UNCHANGED <<xtaskVars, arch, file, mainVars, loaderVars, spaceVars,
                   ptRoot, uctx, reason, exitStatus, nUnknown>>

\* ReturnReason::PageFault(vaddr, flags) => axtask::exit(-1)
OnPageFault ==
    /\ tpc = "trap"
    /\ reason.kind = "PageFault"
    /\ Exit(-1)
    /\ UNCHANGED <<xtaskVars, arch, file, mainVars, loaderVars, spaceVars,
                   ptRoot, uctx, reason, nUnknown>>

\* _ => axtask::exit(-1)
OnOtherTrap ==
    /\ tpc = "trap"
    /\ reason.kind \notin {"Syscall", "PageFault"}
    /\ Exit(-1)
    /\ UNCHANGED <<xtaskVars, arch, file, mainVars, loaderVars, spaceVars,
                   ptRoot, uctx, reason, nUnknown>>

---------------------------------------------------------------------------
\* Specifications.

Next ==
    \/ NewEmpty
    \/ CopyMappings
    \/ LoadOpen
    \/ LoadRead
    \/ LoadAlloc
    \/ LoadMap
    \/ LoadQuery
    \/ LoadCopy
    \/ AfterLoad
    \/ StackAlloc
    \/ StackMap
    \/ SpawnUserTask
    \/ JoinCall
    \/ JoinReturn
    \/ TaskStart
    \/ RunUser
    \/ UserWrite
    \/ Trap
    \/ OnSyscall
    \/ OnPageFault
    \/ OnOtherTrap

\* The whole program.
Spec == Init /\ [][Next]_vars

\* The register the payload's _start loads 93 into.
PayloadSysnoReg ==
    CASE arch = "riscv64"     -> "a7"
      [] arch = "aarch64"     -> "x8"
      [] arch = "x86_64"      -> "rax"
      [] arch = "loongarch64" -> "a7"

\* _start, first instruction: li a7, 93 / mov x8, #93 / mov rax, 93 /
\* ori $a7, $zero, 93.
PayloadLoadSysno ==
    /\ tpc = "in_user"
    /\ uctx[PayloadSysnoReg] # ToWord(93)
    /\ uctx' = [uctx EXCEPT ![PayloadSysnoReg] = ToWord(93)]
    /\ UNCHANGED <<xtaskVars, arch, file, mainVars, loaderVars, spaceVars,
                   tpc, ptRoot, reason, exitStatus, nUnknown>>

\* _start, second instruction: ecall / svc #0 / syscall / syscall 0 makes
\* uctx.run() return Syscall; a fault or another trap can make it return
\* at any point of the payload.
PayloadTrap ==
    /\ tpc = "in_user"
    /\ \E rsn \in Reasons :
          /\ (rsn.kind = "Syscall") => (uctx[PayloadSysnoReg] = ToWord(93))
          /\ reason' = rsn
    /\ tpc' = "trap"
    /\ UNCHANGED <<xtaskVars, arch, file, mainVars, loaderVars, spaceVars,
                   ptRoot, uctx, exitStatus, nUnknown>>

PayloadNext ==
    \/ NewEmpty
    \/ CopyMappings
    \/ LoadOpen
    \/ LoadRead
    \/ LoadAlloc
    \/ LoadMap
    \/ LoadQuery
    \/ LoadCopy
    \/ AfterLoad
    \/ StackAlloc
    \/ StackMap
    \/ SpawnUserTask
    \/ JoinCall
    \/ JoinReturn
    \/ TaskStart
    \/ RunUser
    \/ PayloadLoadSysno
    \/ PayloadTrap
    \/ OnSyscall
    \/ OnPageFault
    \/ OnOtherTrap

\* The whole program with the shipped payload as the user code.
PayloadSpec == Init /\ [][PayloadNext]_vars

\* The scheduler runs every runnable thread (main in join(), the user task
\* in kernel mode) and every uctx.run() returns.
Fairness ==
    /\ WF_vars(JoinCall)
    /\ WF_vars(JoinReturn)
    /\ WF_vars(TaskStart)
    /\ WF_vars(RunUser)
    /\ WF_vars(Trap)
    /\ WF_vars(OnSyscall)
    /\ WF_vars(OnPageFault)
    /\ WF_vars(OnOtherTrap)

\* The whole program under a fair scheduler.
FairSpec == Init /\ [][Next]_vars /\ Fairness

\* load_user_app alone, over every file.
LoaderSpec == LoaderInit /\ [][LoaderNext]_vars

---------------------------------------------------------------------------
\* Vocabulary of the properties.

\* The syscall-number register each architecture's convention mandates.
MandatedSysnoReg ==
    CASE arch = "riscv64"     -> "a7"
      [] arch = "aarch64"     -> "x8"
      [] arch = "x86_64"      -> "rax"
      [] arch = "loongarch64" -> "a7"

\* The last return from user mode was a Syscall with number 93.
TrapIsExit ==
    /\ reason.kind = "Syscall"
    /\ uctx[MandatedSysnoReg] = ToWord(93)

\* The last return from user mode was a Syscall with another number.
TrapIsUnknownCall ==
    /\ reason.kind = "Syscall"
    /\ uctx[MandatedSysnoReg] # ToWord(93)

\* First-argument register contents and the signed 32-bit code they hold.
ExitCases ==
    { <<W0, 0>>, <<WNeg7, -7>>, <<WNeg7Low, -7>>,
      <<WIntMax, 2147483647>>, <<WIntMin, (-2147483647) - 1>> }

\* The task takes a step out of its current position.
TaskMoves == tpc' # tpc

\* Address v lies inside a region mapped with USER permission.
UserMapped(v) ==
    \E a \in areas :
        /\ "USER" \in a.flags
        /\ WordLE(a.start, v)
        /\ WordLT(v, WordAdd(a.start, a.size))

---------------------------------------------------------------------------
\* C1: when a return from user mode is a Syscall with number 93 and the
\* first argument register holds the signed 32-bit value code, the task's
\* next step terminates it with exit status code, and join() returns
\* exactly code to main.
C1_ExitCodeReachesJoin ==
    /\ [][\A c \in ExitCases :
            (tpc = "trap" /\ TrapIsExit /\ uctx[Arg0Reg] = c[1] /\ TaskMoves)
                => (tpc' = "exited" /\ exitStatus' = <<c[2]>>)]_vars
    /\ [](\A c \in ExitCases :
            (mpc = "done" /\ TrapIsExit /\ uctx[Arg0Reg] = c[1])
                => joinResult = <<c[2]>>)

\* C1 witness: join() has returned -7 after an EXIT with a negative code.
C1_Witness ==
    /\ mpc = "done"
    /\ TrapIsExit
    /\ uctx[Arg0Reg] = WNeg7
    /\ joinResult = <<-7>>

\* C2: a Syscall with a number other than 93 leaves the process running:
\* no exit status is recorded, the return-value register holds usize::MAX
\* when the loop calls run(ctx) again, user mode is re-entered with that
\* context, and an EXIT issued after such calls still terminates the task
\* with its code.
C2_UnknownCallContinues ==
    /\ [][(tpc = "trap" /\ TrapIsUnknownCall /\ TaskMoves)
            => /\ tpc' = "loop"
               /\ exitStatus' = NoStatus
               /\ uctx'[RetvalReg] = USIZE_MAX]_vars
    /\ [][(tpc = "loop" /\ TaskMoves)
            => (tpc' = "in_user" /\ uctx' = uctx)]_vars
    /\ [](\A c \in ExitCases :
            (nUnknown > 0 /\ tpc = "exited" /\ TrapIsExit
                /\ uctx[Arg0Reg] = c[1])
                => exitStatus = <<c[2]>>)

\* C2 witness: user mode is entered again after two unimplemented calls,
\* with the sentinel in the return-value register.
C2_Witness ==
    /\ tpc = "in_user"
    /\ nUnknown >= 2
    /\ exitStatus = NoStatus
    /\ uctx[RetvalReg] = USIZE_MAX

\* C3: a return from user mode that is not a Syscall (a PageFault at any
\* address with any flags, or any other trap) terminates the task with
\* exit status -1, whatever was serviced before, and an exited task never
\* runs again nor changes its status.
C3_FatalTrapExits ==
    /\ [][(tpc = "trap" /\ reason.kind # "Syscall" /\ TaskMoves)
            => (tpc' = "exited" /\ exitStatus' = <<-1>>)]_vars
    /\ [][tpc = "exited"
            => (tpc' = "exited" /\ exitStatus' = exitStatus)]_vars

\* C3 witness: the task exited with -1 on a page fault at a mapped address
\* after it had unimplemented calls serviced.
C3_Witness ==
    /\ tpc = "exited"
    /\ reason.kind = "PageFault"
    /\ reason.vaddr = ToWord(APP_ENTRY)
    /\ reason.flags = {"WRITE", "USER"}
    /\ nUnknown >= 1
    /\ exitStatus = <<-1>>

\* Contexts that agree with ctx on the mandated syscall-number register
\* and hold any of three probe values in each register.
SameSysno(ctx) ==
    {c \in [Regs -> {W0, ToWord(93), USIZE_MAX, ctx[MandatedSysnoReg]}] :
        c[MandatedSysnoReg] = ctx[MandatedSysnoReg]}

\* C4: handle_syscall's choice between terminating and continuing is a
\* function of the mandated syscall-number register alone (a7, x8, rax):
\* every context that agrees with the trapped one on that register gets
\* the same choice, which is "terminate" exactly when the register is 93.
C4_DispatchOnSysnoOnly ==
    (tpc = "trap" /\ reason.kind = "Syscall")
        => \A c \in SameSysno(uctx) :
              /\ (handle_syscall(c).ret # None)
                    <=> (handle_syscall(uctx).ret # None)
              /\ (handle_syscall(c).ret # None)
                    <=> (uctx[MandatedSysnoReg] = ToWord(93))

\* C4 witness: on x86_64 a syscall trapped with rax = 93 and a non-zero
\* first argument.
C4_Witness ==
    /\ arch = "x86_64"
    /\ tpc = "trap"
    /\ reason.kind = "Syscall"
    /\ uctx["rax"] = ToWord(93)
    /\ uctx["rdi"] = WHigh5

\* C5: the task becomes exited only by its own step out of a return from
\* user mode that is a Syscall with number 93, a PageFault or another
\* non-syscall trap; never after a Syscall with another number, and never
\* by a step of main.
C5_OnlyOwnExitPaths ==
    /\ [][(tpc # "exited" /\ tpc' = "exited")
            => /\ tpc = "trap"
               /\ (TrapIsExit \/ reason.kind # "Syscall")
               /\ mpc' = mpc]_vars
    /\ []((exitStatus # NoStatus) <=> (tpc = "exited"))

\* C5 witness: the task exited on an interrupt trap while main had not yet
\* called join().
C5_Witness ==
    /\ tpc = "exited"
    /\ reason.kind = "Interrupt"
    /\ mpc = "join"

\* C6: join() has returned only if the task has exited and recorded its
\* exit status, and it returned that status; while the task is in its
\* loop (entering user mode, in user mode or handling a trap) main is not
\* past join().
C6_JoinWaitsForExit ==
    /\ (mpc = "done")
          => (tpc = "exited" /\ exitStatus # NoStatus
                /\ joinResult = exitStatus)
    /\ (tpc \in {"start", "loop", "in_user", "trap"})
          => (mpc \in {"join", "joining"} /\ joinResult = NoStatus)

\* C6 witness: join() returned the -1 recorded by a task that exited on a
\* page fault.
C6_Witness ==
    /\ mpc = "done"
    /\ reason.kind = "PageFault"
    /\ joinResult = <<-1>>

\* The page a file of at most one page should leave behind: its bytes in
\* order, then zeros.
PaddedFile(d) == [i \in 1..PageLen |-> IF i <= Len(d) THEN d[i] ELSE 0]

\* C7: for a file of N bytes, 0 < N <= page size, a successful
\* load_user_app leaves the page behind APP_ENTRY holding the N bytes of
\* the file in order followed by zeros.
C7_PageHoldsFile ==
    (lpc = "ret" /\ loadRes = "Ok"
        /\ Len(file.bytes) > 0 /\ Len(file.bytes) <= PageLen)
        => codePage = PaddedFile(file.bytes)

\* C8: load_user_app returns one outcome, fixed by the first failing step:
\* NotFound for a failed open, the read's own error for a failed read,
\* NoMemory for a failed page allocation or a failed map (whatever the
\* map's error), and Ok only when open, read, allocation and map all
\* succeeded; nothing is returned before a step fails or the copy is done.
C8_LoadOutcome ==
    /\ (lpc # "ret") => (loadRes = "none" /\ failedStep = "none")
    /\ (lpc = "ret") =>
          /\ (failedStep = "open") => (loadRes = "NotFound")
          /\ (failedStep = "read") => (loadRes = cause /\ cause \in ReadErrors)
          /\ (failedStep \in {"alloc", "map"}) => (loadRes = "NoMemory")
          /\ (failedStep = "none") <=> (loadRes = "Ok")
          /\ (loadRes = "Ok") =>
                /\ file.present
                /\ buf # NoPage
                /\ codePage # NoPage
                /\ AreasAt(areas, ToWord(4096)) # {}

\* C8 witness: the map of the code page failed with BadState and
\* load_user_app returned NoMemory.
C8_Witness ==
    /\ lpc = "ret"
    /\ failedStep = "map"
    /\ cause = "BadState"
    /\ loadRes = "NoMemory"

\* C9: when a setup step of main() fails, main() stops with the step's
\* error and stays stopped, no user task is spawned and user mode is never
\* entered; a task exists only after every setup step has succeeded.
C9_SetupFailureAborts ==
    /\ []((mpc = "panicked")
            => (mainErr # "none" /\ tpc = "unspawned" /\ ptRoot = "none"))
    /\ []((loadRes \notin {"none", "Ok"}) => (tpc = "unspawned"))
    /\ []((tpc # "unspawned")
            => /\ mainErr = "none"
               /\ aspace = "task"
               /\ kmapped
               /\ loadRes = "Ok"
               /\ stackPages
               /\ Cardinality(areas) = 2)
    /\ [][(mpc = "panicked")
            => (mpc' = "panicked" /\ tpc' = "unspawned")]_vars

\* C9 witness: main() stopped on the NotFound that load_user_app returned.
C9_Witness ==
    /\ mpc = "panicked"
    /\ failedStep = "open"
    /\ mainErr = "NotFound"
    /\ tpc = "unspawned"

\* uctx.run() is about to enter user mode for the first time.
FirstEntry == tpc = "loop" /\ nUnknown = 0

\* C10 as stated: at the first entry into user mode the entry program
\* counter and the initial stack pointer both lie inside a region mapped
\* with USER permission.
C10_EntryAndSpUserMapped ==
    FirstEntry => (UserMapped(uctx[IpReg]) /\ UserMapped(uctx[SpReg]))

\* C10 amended: at the first entry into user mode the program counter is
\* 0x1000 and lies inside a region mapped with USER permission; the stack
\* pointer is ustack_top, the exclusive upper end of a USER region: the
\* address just below it lies inside that region, ustack_top itself (the
\* end of the address space) lies inside no mapped region.
C10_EntryMappedSpAtStackEnd ==
    FirstEntry =>
        /\ uctx[IpReg] = ToWord(4096)
        /\ UserMapped(uctx[IpReg])
        /\ uctx[SpReg] = <<0, 0, 64, 0>>
        /\ \E a \in areas :
              /\ "USER" \in a.flags
              /\ WordAdd(a.start, a.size) = uctx[SpReg]
        /\ UserMapped(WordSub(uctx[SpReg], ToWord(1)))
        /\ AreasAt(areas, uctx[SpReg]) = {}

\* C10 witness: the first run(ctx) is about to be called on the fresh
\* context, with code page and stack mapped.
C10_Witness ==
    /\ FirstEntry
    /\ Cardinality(areas) = 2
    /\ uctx[Arg0Reg] = W0

\* C11: once the task is spawned, the process-specific regions are the
\* code page [0x1000, 0x2000) with READ|WRITE|EXECUTE|USER and the 64 KiB
\* stack [0x3f_ffff_0000, 0x40_0000_0000) with READ|WRITE|USER and no
\* EXECUTE; both lie within [0x0, 0x40_0000_0000) and do not overlap.
C11_SpawnedRegions ==
    (tpc # "unspawned") =>
        /\ Cardinality(areas) = 2
        /\ \E c \in areas :
              /\ c.start = <<4096, 0, 0, 0>>
              /\ WordAdd(c.start, c.size) = <<8192, 0, 0, 0>>
              /\ c.flags = {"READ", "WRITE", "EXECUTE", "USER"}
        /\ \E s \in areas :
              /\ s.start = <<0, 65535, 63, 0>>
              /\ s.size = <<0, 1, 0, 0>>
              /\ WordAdd(s.start, s.size) = <<0, 0, 64, 0>>
              /\ s.flags = {"READ", "WRITE", "USER"}
        /\ \A a \in areas :
              /\ WordLE(<<0, 0, 0, 0>>, a.start)
              /\ WordLT(a.start, WordAdd(a.start, a.size))
              /\ WordLE(WordAdd(a.start, a.size), <<0, 0, 64, 0>>)
        /\ \A a, b \in areas :
              (a # b) => \/ WordLE(WordAdd(a.start, a.size), b.start)
                         \/ WordLE(WordAdd(b.start, b.size), a.start)

\* C11 witness: the task is in user mode with both regions mapped while
\* main is blocked in join().
C11_Witness ==
    /\ tpc = "in_user"
    /\ mpc = "joining"
    /\ Cardinality(areas) = 2

C13_WaiterReturns ==
    /\ (tpc = "trap" /\ (reason.kind # "Syscall" \/ TrapIsExit))
          ~> (mpc = "done")
    /\ (tpc # "unspawned")
          ~> (mpc = "done" \/ (tpc = "trap" /\ TrapIsUnknownCall))

\* C13 witness: join() returned the -1 of a task that exited on an
\* Exception trap after an unimplemented call.
C13_Witness ==
    /\ mpc = "done"
    /\ reason.kind = "Exception"
    /\ nUnknown >= 1
    /\ joinResult = <<-1>>

\* C14: whenever the task enters or is in user mode, the page-table root
\* set on the task is the root of the address space the task owns, and
\* that address space holds the copied kernel mappings, the loaded code
\* page and the mapped stack; the root is on the task from the moment the
\* task is schedulable, and the task exists only after the whole setup.
C14_RootOfOwnedSpace ==
    /\ (tpc # "unspawned") =>
          /\ ptRoot = "uspace"
          /\ aspace = "task"
          /\ mpc \in {"join", "joining", "done"}
    /\ (tpc \in {"loop", "in_user"}) =>
          /\ kmapped
          /\ loadRes = "Ok"
          /\ codePage # NoPage
          /\ \E c \in areas :
                c.start = <<4096, 0, 0, 0>> /\ c.backing = "code_pages"
          /\ stackPages
          /\ \E s \in areas :
                s.start = <<0, 65535, 63, 0>> /\ s.backing = "stack_pages"

\* C14 witness: user mode is re-entered after an unimplemented call with
\* the root of the task's address space.
C14_Witness ==
    /\ tpc = "in_user"
    /\ nUnknown >= 1
    /\ ptRoot = "uspace"
    /\ aspace = "task"

\* C15: once the task has exited (on EXIT, a page fault or another trap),
\* run(ctx) and handle_syscall are never called again: the task takes no
\* further step and its context is never touched; the exit status is
\* recorded at that moment and never changes afterwards.
C15_TerminalOutcomeIsFinal ==
    /\ [][(tpc = "exited")
            => /\ tpc' = "exited"
               /\ uctx' = uctx
               /\ reason' = reason
               /\ nUnknown' = nUnknown]_vars
    /\ [][(exitStatus # NoStatus) => (exitStatus' = exitStatus)]_vars
    /\ [][(exitStatus' # exitStatus)
            => (exitStatus = NoStatus /\ tpc = "trap" /\ tpc' = "exited")]_vars

\* C15 witness: main has returned from join() on a task that exited on
\* EXIT with a negative code after unimplemented calls.
C15_Witness ==
    /\ tpc = "exited"
    /\ mpc = "done"
    /\ TrapIsExit
    /\ nUnknown >= 1
    /\ exitStatus = <<(-2147483647) - 1>>

\* C16: handle_syscall leaves every register of the context unchanged for
\* syscall number 93, and for any other number changes nothing but the
\* return-value register (a0, x0, rax, a0): program counter, stack
\* pointer and, where it is not the return-value register, the
\* syscall-number register keep their saved values for the next run(ctx).
C16_OnlyRetvalWritten ==
    [][(tpc = "trap" /\ reason.kind = "Syscall" /\ TaskMoves)
        => IF uctx[MandatedSysnoReg] = ToWord(93)
              THEN uctx' = uctx
              ELSE \A r \in Regs :
                      (r # (CASE arch = "riscv64"     -> "a0"
                              [] arch = "aarch64"     -> "x0"
                              [] arch = "x86_64"      -> "rax"
                              [] arch = "loongarch64" -> "a0"))
                          => (uctx'[r] = uctx[r])]_vars

\* C16 witness: on aarch64 the loop is about to re-enter user mode after
\* an unimplemented call with x8, sp and elr as the user left them.
C16_Witness ==
    /\ arch = "aarch64"
    /\ tpc = "loop"
    /\ nUnknown >= 1
    /\ uctx["x8"] = WHigh93
    /\ uctx["sp"] # <<0, 0, 64, 0>>
    /\ uctx["elr"] # ToWord(4096)
    /\ uctx["x0"] = USIZE_MAX

\* C17: the exit status of EXIT is the low 32 bits of the first argument
\* register read as a two's-complement number: it is congruent to the
\* register's low two limbs, negative exactly when bit 31 is set, and so
\* the same for register values that differ by a multiple of 2^32.
C17_ExitStatusIsLow32 ==
    (tpc = "exited" /\ TrapIsExit) =>
        LET s == exitStatus[1]
            w == uctx[Arg0Reg]
        IN  /\ s % (2 ^ 16) = w[1]
            /\ ((s - w[1]) \div (2 ^ 16)) % (2 ^ 16) = w[2]
            /\ (s < 0) <=> (w[2] >= 2 ^ 15)
            /\ (w = <<5, 0, 1, 0>>) => (s = 5)
            /\ (w \in {<<65529, 65535, 0, 0>>, <<65529, 65535, 65535, 65535>>})
                  => (s = -7)

\* C17 witness: EXIT with 2^32 + 5 in the first argument register gave the
\* exit status 5.
C17_Witness ==
    /\ tpc = "exited"
    /\ TrapIsExit
    /\ uctx[Arg0Reg] = WHigh5
    /\ exitStatus = <<5>>

\* C18 as stated: the physical page is allocated and mapped at the load
\* address first, and only then is the file opened and read: whenever the
\* file has been opened, the code page is already allocated and mapped.
C18_MapBeforeOpen ==
    (lpc \in {"read", "alloc"})
        => (codePage # NoPage /\ AreasAt(areas, ToWord(4096)) # {})

\* C18 amended: the file is opened and read into the staging buffer
\* first; only then is the physical page allocated and mapped at the load
\* address, followed by the translation of the load address and the copy
\* into the physical backing.
C18_ReadBeforeAllocAndMap ==
    /\ (lpc \in {"open", "read", "alloc"})
          => (codePage = NoPage /\ areas = {})
    /\ (codePage # NoPage)
          => (buf # NoPage /\ failedStep \notin {"open", "read"})
    /\ (lpc = "map") => (codePage = ZeroPage /\ areas = {})
    /\ (lpc \in {"query", "copy"})
          => (codePage = ZeroPage /\ AreasAt(areas, ToWord(4096)) # {})
    /\ (codePage \notin {NoPage, ZeroPage})
          => (lpc = "ret" /\ loadRes = "Ok"
                /\ AreasAt(areas, ToWord(4096)) # {})

\* C18 witness: the file has been read into the buffer and the page is
\* allocated but not yet mapped.
C18_Witness ==
    /\ lpc = "map"
    /\ buf # NoPage
    /\ buf[1] = 1
    /\ codePage = ZeroPage
    /\ areas = {}

\* C19: the address space is owned by the task while the task can enter
\* user mode or handle a trap, and it is dropped when the task has
\* terminated.
C19_SpaceDroppedAtExit ==
    /\ (tpc \in {"start", "loop", "in_user", "trap"}) => (aspace = "task")
    /\ (tpc = "exited") => (aspace = "dropped")

---------------------------------------------------------------------------
\* xtask: the build tool (xtask/src/main.rs).

\* Values of --arch: the four supported names and two unsupported ones.
XArchNames ==
    {"riscv64", "aarch64", "x86_64", "loongarch64", "riscv32", "mips64"}

XCmds == {"Build", "Run"}

NoInfo == <<>>

\* arch_info: the ArchInfo of a supported name; for any other name the
\* function prints an error and exits (NoInfo).
arch_info(a) ==
    CASE a = "riscv64" ->
           <<[target |-> "riscv64gc-unknown-none-elf",
              platform |-> "riscv64-qemu-virt",
              objcopy_arch |-> "riscv64"]>>
      [] a = "aarch64" ->
           <<[target |-> "aarch64-unknown-none-softfloat",
              platform |-> "aarch64-qemu-virt",
              objcopy_arch |-> "aarch64"]>>
      [] a = "x86_64" ->
           <<[target |-> "x86_64-unknown-none",
              platform |-> "x86-pc",
              objcopy_arch |-> "x86_64"]>>
      [] a = "loongarch64" ->
           <<[target |-> "loongarch64-unknown-none",
              platform |-> "loongarch64-qemu-virt",
              objcopy_arch |-> "loongarch64"]>>
      [] OTHER -> NoInfo

\* Exit codes a child process may end with (a byte).
ChildCodes == {0, 1, 2, 255}

\* What Command::status() can yield: the child could not be started, the
\* child ended with an exit code, or the child was killed by a signal.
ChildOutcomes ==
    {[kind |-> "spawn_err", code |-> 0], [kind |-> "signal", code |-> 0]}
        \cup {[kind |-> "exited", code |-> c] : c \in ChildCodes}

\* ExitStatus::success().
success(st) == st.kind = "exited" /\ st.code = 0

\* ExitStatus::code(): None for a child killed by a signal.
code(st) == IF st.kind = "exited" THEN <<st.code>> ELSE <<>>

\* Option::unwrap_or.
unwrap_or(opt, d) == IF opt = <<>> THEN d ELSE opt[1]

\* process::exit(n): the status the tool's parent observes is the low byte.
ProcessExit(n) == n % 256

\* What a step does to the tool: it returns, or the tool's process ends
\* with a status.
Returned == [ended |-> FALSE, status |-> 0]
Ended(n) == [ended |-> TRUE, status |-> n]

\* .status().expect(..) followed by `if !status.success() { process::exit(
\* status.code().unwrap_or(1)) }`: a child that cannot be started panics
\* the tool (status 101).
CheckChild(st) ==
    IF st.kind = "spawn_err" THEN Ended(101)
    ELSE IF ~success(st) THEN Ended(ProcessExit(unwrap_or(code(st), 1)))
    ELSE Returned

\* do_run_qemu's variant: a child that cannot be started ends the tool
\* with process::exit(1).
CheckQemu(st) ==
    IF st.kind = "spawn_err" THEN Ended(ProcessExit(1))
    ELSE IF ~success(st) THEN Ended(ProcessExit(unwrap_or(code(st), 1)))
    ELSE Returned

\* One call of main() ran to its end: the step and how it ended are
\* recorded; the tool goes on to `next`, or its process ends.
XStep(step, failed, res, next) ==
    /\ xran' = Append(xran, [step |-> step, failed |-> failed])
    /\ IF res.ended
         THEN xpc' = "exited" /\ xstatus' = <<res.status>>
         ELSE xpc' = next /\ UNCHANGED xstatus
    /\ UNCHANGED <<xcmd, xarch, arch, file, mainVars, loaderVars,
                   spaceVars, taskVars>>

\* The state after Cli::parse(): a subcommand and its --arch value.
XtaskInit ==
    /\ xcmd \in XCmds
    /\ xarch \in XArchNames
    /\ xpc = "arch_info"
    /\ xran = <<>>
    /\ xstatus = <<>>
    /\ arch = "riscv64"
    /\ file = Payload
    /\ mpc = "new_empty"
    /\ mainErr = "none"
    /\ lpc = "idle"
    /\ buf = NoPage
    /\ loadRes = "none"
    /\ failedStep = "none"
    /\ cause = "none"
    /\ areas = {}
    /\ kmapped = FALSE
    /\ aspace = "none"
    /\ codePage = NoPage
    /\ stackPages = FALSE
    /\ tpc = "unspawned"
    /\ ptRoot = "none"
    /\ uctx = NoCtx
    /\ reason = NoReason
    /\ exitStatus = NoStatus
    /\ joinResult = NoStatus
    /\ nUnknown = 0

\* let info = arch_info(arch);
XArchInfo ==
    /\ xpc = "arch_info"
    /\ LET unsupported == arch_info(xarch) = NoInfo
       IN  XStep("arch_info", unsupported,
                 IF unsupported THEN Ended(ProcessExit(1)) ELSE Returned,
                 "install_config")

\* install_config(&root, arch): the config file may be missing and the
\* copy may fail; both end the tool with process::exit(1).
XInstallConfig ==
    /\ xpc = "install_config"
    /\ \E o \in {"ok", "not_found", "copy_err"} :
          XStep("install_config", o # "ok",
                IF o = "ok" THEN Returned ELSE Ended(ProcessExit(1)),
                "build_payload")

\* build_payload(&root, &info): cargo build, then rust-objcopy, which runs
\* only when cargo succeeded.
XBuildPayload ==
    /\ xpc = "build_payload"
    /\ \E cargo \in ChildOutcomes, objcopy \in ChildOutcomes :
          XStep("build_payload",
                ~success(cargo) \/ ~success(objcopy),
                IF CheckChild(cargo).ended THEN CheckChild(cargo)
                ELSE CheckChild(objcopy),
                IF xcmd = "Run" THEN "create_fat_disk_image"
                ELSE "do_build")

\* The operations of create_fat_disk_image that can fail: those handled by
\* unwrap_or_else end the tool with process::exit(1), those handled by
\* unwrap() panic it (status 101).
DiskExits == {"read", "open", "format_volume", "FileSystem::new",
              "create_dir", "create_file"}
DiskPanics == {"set_len", "write_all", "flush"}

\* create_fat_disk_image(&disk, &payload_bin).
XCreateDisk ==
    /\ xpc = "create_fat_disk_image"
    /\ \E o \in {"ok"} \cup DiskExits \cup DiskPanics :
          XStep("create_fat_disk_image", o # "ok",
                IF o \in DiskExits THEN Ended(ProcessExit(1))
                ELSE IF o \in DiskPanics THEN Ended(101)
                ELSE Returned,
                "do_build")

\* if arch != "x86_64" { do_objcopy(..) }, inverted.
NeedsObjcopyOnX86(a) == a = "x86_64"

\* if arch != "x86_64" { do_objcopy(..) }
NeedsObjcopy(a) == a # "x86_64"

\* do_build(&root, &info): the last call of `build`; `run` goes on to the
\* objcopy of the kernel, or directly to QEMU.
XDoBuild ==
    /\ xpc = "do_build"
    /\ \E cargo \in ChildOutcomes :
          XStep("do_build", ~success(cargo), CheckChild(cargo),
                IF xcmd = "Build" THEN "return"
                ELSE IF NeedsObjcopy(xarch) THEN "do_objcopy"
                ELSE "do_run_qemu")

\* do_objcopy(&elf, &bin, info.objcopy_arch).
XDoObjcopy ==
    /\ xpc = "do_objcopy"
    /\ \E objcopy \in ChildOutcomes :
          XStep("do_objcopy", ~success(objcopy), CheckChild(objcopy),
                "do_run_qemu")

\* do_run_qemu(arch, &elf, &bin, &disk).
XDoRunQemu ==
    /\ xpc = "do_run_qemu"
    /\ \E qemu \in ChildOutcomes :
          XStep("do_run_qemu", ~success(qemu), CheckQemu(qemu), "return")

\* main() returns: the tool's process ends with status 0.
XMainReturn ==
    /\ xpc = "return"
    /\ xpc' = "exited"
    /\ xstatus' = <<0>>
    /\ UNCHANGED <<xcmd, xarch, xran, arch, file, mainVars, loaderVars,
                   spaceVars, taskVars>>

XtaskNext ==
    \/ XArchInfo
    \/ XInstallConfig
    \/ XBuildPayload
    \/ XCreateDisk
    \/ XDoBuild
    \/ XDoObjcopy
    \/ XDoRunQemu
    \/ XMainReturn

\* The build tool from the end of argument parsing to the end of its
\* process.
XtaskSpec == XtaskInit /\ [][XtaskNext]_vars

\* The file's first n bytes followed by zeros.
PaddedPrefix(d, n) == [i \in 1..PageLen |-> IF i <= n THEN d[i] ELSE 0]

\* C20: a file longer than one page, or a read that delivers fewer bytes
\* than the file holds, is no error: load_user_app fails only on a failed
\* open, read, allocation or map, and when it succeeds the code page holds
\* the delivered prefix of the file (at most one page, at least one byte
\* of a non-empty file) followed by zeros.
C20_DeliveredPrefixLoaded ==
    /\ (lpc = "ret" /\ loadRes = "Ok") =>
          \E n \in 0..PageLen :
              /\ n <= Len(file.bytes)
              /\ (Len(file.bytes) > 0) => (n >= 1)
              /\ codePage = PaddedPrefix(file.bytes, n)
    /\ (lpc = "ret" /\ loadRes # "Ok") =>
          /\ failedStep \in {"open", "read", "alloc", "map"}
          /\ cause \in {"NotFound", "Io", "PermissionDenied", "BadState",
                        "NoMemory"}

\* C20 witness: a file of more than a page was loaded without error; the
\* page holds its first page of bytes and its last byte is not loaded.
C20_Witness ==
    /\ lpc = "ret"
    /\ loadRes = "Ok"
    /\ Len(file.bytes) = PageLen + 1
    /\ file.bytes[PageLen + 1] = 2
    /\ \A i \in 1..PageLen : codePage[i] = 1 /\ file.bytes[i] = 1

\* The steps the `run` command is to execute for an architecture, in order.
RunOrder(a) ==
    IF a = "x86_64"
      THEN <<"arch_info", "install_config", "build_payload",
             "create_fat_disk_image", "do_build", "do_run_qemu">>
      ELSE <<"arch_info", "install_config", "build_payload",
             "create_fat_disk_image", "do_build", "do_objcopy",
             "do_run_qemu">>

\* C21: the `run` command executes architecture check, config install,
\* payload build, disk image creation, kernel build, kernel objcopy
\* (skipped exactly when the architecture is x86_64) and QEMU launch in
\* this order; an unsupported architecture or a failed step ends the tool
\* with a non-zero exit status, no step runs after a failed one, and the
\* tool ends with status 0 only after all its steps ran.
C21_RunStepsInOrder ==
    /\ []((xcmd = "Run") =>
            /\ Len(xran) <= Len(RunOrder(xarch))
            /\ \A i \in 1..Len(xran) :
                  /\ xran[i].step = RunOrder(xarch)[i]
                  /\ xran[i].failed =>
                        /\ i = Len(xran)
                        /\ xstatus # <<>>
                        /\ xstatus # <<0>>
            /\ (/\ xarch \notin {"riscv64", "aarch64", "x86_64",
                                 "loongarch64"}
                /\ xran # <<>>) => xran[1].failed
            /\ (xstatus = <<0>>) => (Len(xran) = Len(RunOrder(xarch))))
    /\ [][(xcmd = "Run" /\ xstatus # <<>>) => (xran' = xran)]_vars

\* C21 witness: `run --arch aarch64` ran all seven steps, the kernel
\* objcopy included, and QEMU, killed by a signal or ended with code 1,
\* made the tool end with status 1.
C21_Witness ==
    /\ xcmd = "Run"
    /\ xarch = "aarch64"
    /\ Len(xran) = 7
    /\ xran[6].step = "do_objcopy"
    /\ xran[7].step = "do_run_qemu"
    /\ xran[7].failed
    /\ xstatus = <<1>>
    /\ xpc = "exited"

============================================================================
